---------------------------- MODULE Spec2Model ----------------------------
(***************************************************************************)
(* Shut the Box (src/shut_the_box.py): the solution search                 *)
(* find_all_solutions, the seven number-removing strategies, and the game  *)
(* loop Game.play driven by the __main__ block with one strategy instance  *)
(* reused for consecutive games.                                           *)
(*                                                                         *)
(* Python lists are sequences.  A strategy instance is the pair            *)
(* (strategy, answer): `strategy` names its class and secondary_strategy,  *)
(* `answer` is its mutable field self.answer.                              *)
(***************************************************************************)
EXTENDS Integers, Sequences, FiniteSets, TLC

\* ------------------------------------------------------------------ bounds

\* Highest number on the board: range(1, 10).
BoardMax == 9

\* Faces of a die: randint(1, 6).
DieFaces == 6

\* Highest total of two dice.
MaxRoll == DieFaces + DieFaces

\* Games played with the one strategy instance (the source plays 1000).
MaxGames == 2

\* Longest list of numbers given to the functions in arbitrary (not
\* ascending) order; ascending lists are given in every length.
MaxLen == 3

\* Highest target given to the functions when they are called directly.
MaxTarget == 12

\* ------------------------------------------------------- list primitives

Range(seq) == {seq[i] : i \in 1..Len(seq)}

NoDuplicates(seq) == \A i, j \in 1..Len(seq) : seq[i] = seq[j] => i = j

IsAscending(seq) == \A i \in 1..(Len(seq) - 1) : seq[i] < seq[i + 1]

IsDescending(seq) == \A i \in 1..(Len(seq) - 1) : seq[i] > seq[i + 1]

RECURSIVE SumSeq(_)
\* sum(list)
SumSeq(seq) == IF seq = <<>> THEN 0 ELSE Head(seq) + SumSeq(Tail(seq))

RECURSIVE SumSet(_)
SumSet(S) == IF S = {} THEN 0
             ELSE LET x == CHOOSE y \in S : TRUE IN x + SumSet(S \ {x})

\* min(list) and max(list) of a non-empty list
MinOf(seq) == CHOOSE x \in Range(seq) : \A y \in Range(seq) : x <= y

MaxOf(seq) == CHOOSE x \in Range(seq) : \A y \in Range(seq) : x >= y

\* Index of the first occurrence of x in seq (0 when absent).
IndexOf(seq, x) == IF x \in Range(seq)
                   THEN CHOOSE i \in 1..Len(seq) :
                            seq[i] = x /\ \A j \in 1..(i - 1) : seq[j] # x
                   ELSE 0

\* list.remove(x): the list without the first occurrence of x.  Python
\* raises ValueError when x is absent; callers that can meet that case
\* test membership first, and here the list is then left as it is.
ListRemove(seq, x) ==
    LET i == IndexOf(seq, x)
    IN IF i = 0 THEN seq
       ELSE SubSeq(seq, 1, i - 1) \o SubSeq(seq, i + 1, Len(seq))

RECURSIVE SortedAscending(_)
\* sorted(list): selection of the least element first.
SortedAscending(seq) ==
    IF seq = <<>> THEN <<>>
    ELSE LET m == MinOf(seq) IN <<m>> \o SortedAscending(ListRemove(seq, m))

RECURSIVE SortedDescending(_)
SortedDescending(seq) ==
    IF seq = <<>> THEN <<>>
    ELSE LET m == MaxOf(seq) IN <<m>> \o SortedDescending(ListRemove(seq, m))

\* sorted(numbers) with reverse=True left out.
SortedReverse_NotReversed(seq) == SortedAscending(seq)

\* sorted(numbers, reverse=True)
SortedReverse(seq) == SortedDescending(seq)

\* --------------------------------------------------- find_all_solutions

\* numbers[index:], the slice a recursion that forgot the "+ 1" would take.
SuffixAfter_SameIndex(numbers, index) == SubSeq(numbers, index, Len(numbers))

\* numbers[index + 1 :] for the 1-based position index of the loop.
SuffixAfter(numbers, index) == SubSeq(numbers, index + 1, Len(numbers))

RECURSIVE recurse(_, _, _), recurse_loop(_, _, _, _)
\* The solutions recurse appends to the enclosing list, in order.
recurse(numbers, target, subsolution) ==
    LET appended == IF target = 0 THEN <<subsolution>> ELSE <<>>
    IN IF target < 0 THEN appended
       ELSE appended \o recurse_loop(numbers, target, subsolution, 1)

\* for index, number in enumerate(numbers), from position index on.
recurse_loop(numbers, target, subsolution, index) ==
    IF index > Len(numbers) THEN <<>>
    ELSE recurse(SuffixAfter(numbers, index), target - numbers[index],
                 Append(subsolution, numbers[index]))
         \o recurse_loop(numbers, target, subsolution, index + 1)

find_all_solutions(numbers, target) == recurse(numbers, target, <<>>)


\* ------------------------------------------------------------ strategies
\* choose_numbers works on self.answer: each operator takes the answer as
\* it stands at the call and gives the outcome of the call,
\*   ret      the value returned, "None" where the method returns nothing,
\*   answer   self.answer afterwards,
\*   searches how many times a greedy choose_numbers (LowestFirst's or
\*            HighestFirst's) was entered, the recursive calls included.

Outcome(r, a, s) == [ret |-> r, answer |-> a, searches |-> s]

RECURSIVE LowestFirst_choose_numbers(_, _, _), LowestFirst_loop(_, _, _, _, _)
\* LowestFirst.choose_numbers
LowestFirst_choose_numbers(answer, numbers, roll) ==
    IF roll = 0 THEN Outcome(TRUE, answer, 1)
    ELSE LowestFirst_loop(answer, numbers, roll, 1, 1)

\* for number in numbers, from position i on; searches counts the calls so
\* far.  new_nums is a copy (numbers[:]), so numbers itself is not changed.
LowestFirst_loop(answer, numbers, roll, i, searches) ==
    IF i > Len(numbers) THEN Outcome(FALSE, answer, searches)
    ELSE LET number == numbers[i] IN
         IF number > roll THEN Outcome(FALSE, answer, searches)
         ELSE LET new_nums == ListRemove(numbers, number)
                  r == LowestFirst_choose_numbers(Append(answer, number),
                                                  new_nums, roll - number)
              IN IF r.ret
                 THEN Outcome(TRUE, r.answer, searches + r.searches)
                 ELSE LowestFirst_loop(ListRemove(r.answer, number), numbers,
                                       roll, i + 1, searches + r.searches)

RECURSIVE HighestFirst_choose_numbers(_, _, _), HighestFirst_loop(_, _, _, _, _)

\* The loop of HighestFirst with LowestFirst's early failure in place of
\* the skip.
HighestFirst_loop_EarlyFail(answer, numbers, roll, i, searches) ==
    IF i > Len(numbers) THEN Outcome(FALSE, answer, searches)
    ELSE LET number == numbers[i] IN
         IF number > roll THEN Outcome(FALSE, answer, searches)
         ELSE LET new_nums == ListRemove(numbers, number)
                  r == HighestFirst_choose_numbers(Append(answer, number),
                                                   new_nums, roll - number)
              IN IF r.ret
                 THEN Outcome(TRUE, r.answer, searches + r.searches)
                 ELSE HighestFirst_loop(ListRemove(r.answer, number), numbers,
                                        roll, i + 1, searches + r.searches)

\* HighestFirst.choose_numbers: the local numbers is rebound to a sorted
\* copy, the caller's list is not changed.
HighestFirst_choose_numbers(answer, numbers, roll) ==
    IF roll = 0 THEN Outcome(TRUE, answer, 1)
    ELSE HighestFirst_loop(answer, SortedReverse(numbers), roll, 1, 1)

\* for number in numbers (the sorted copy), from position i on.
HighestFirst_loop(answer, numbers, roll, i, searches) ==
    IF i > Len(numbers) THEN Outcome(FALSE, answer, searches)
    ELSE LET number == numbers[i] IN
         IF number > roll
         THEN HighestFirst_loop(answer, numbers, roll, i + 1, searches)
         ELSE LET new_nums == ListRemove(numbers, number)
                  r == HighestFirst_choose_numbers(Append(answer, number),
                                                   new_nums, roll - number)
              IN IF r.ret
                 THEN Outcome(TRUE, r.answer, searches + r.searches)
                 ELSE HighestFirst_loop(ListRemove(r.answer, number), numbers,
                                        roll, i + 1, searches + r.searches)

\* ExactThenLowest without the test that the roll is on the board.
ExactThenLowest_NoMembershipTest(answer, numbers, roll) ==
    Outcome("None", Append(answer, roll), 0)

\* ExactThenLowest.choose_numbers
ExactThenLowest_choose_numbers(answer, numbers, roll) ==
    IF roll \in Range(numbers)
    THEN Outcome("None", Append(answer, roll), 0)
    ELSE LET r == LowestFirst_choose_numbers(answer, numbers, roll)
         IN Outcome("None", r.answer, r.searches)

\* ExactThenHighest whose fall-through goes to LowestFirst's search.
ExactThenHighest_ViaLowest(answer, numbers, roll) ==
    IF roll \in Range(numbers)
    THEN Outcome("None", Append(answer, roll), 0)
    ELSE LET r == LowestFirst_choose_numbers(answer, numbers, roll)
         IN Outcome("None", r.answer, r.searches)

\* ExactThenHighest.choose_numbers
ExactThenHighest_choose_numbers(answer, numbers, roll) ==
    IF roll \in Range(numbers)
    THEN Outcome("None", Append(answer, roll), 0)
    ELSE LET r == HighestFirst_choose_numbers(answer, numbers, roll)
         IN Outcome("None", r.answer, r.searches)

\* Random.choose_numbers: choice(solutions) may give any of the solutions,
\* so the call has a set of outcomes.
Random_choose_numbers(answer, numbers, roll) ==
    LET solutions == find_all_solutions(numbers, roll)
    IN IF solutions # <<>>
       THEN {Outcome("None", solutions[i], 0) : i \in 1..Len(solutions)}
       ELSE {Outcome("None", answer, 0)}

\* The highest-preferring key with the sign forgotten.
secondary_strategy_MaxUnnegated(secondary, sol) ==
    IF secondary = "min" THEN MinOf(sol) ELSE MaxOf(sol)

\* The two secondary_strategy functions of the source: min, and
\* lambda x: -1 * max(x).
secondary_strategy(secondary, sol) ==
    IF secondary = "min" THEN MinOf(sol) ELSE (-1) * MaxOf(sol)

RECURSIVE InsertByKey(_, _, _)
\* sol put into the key-sorted list after every element whose key is not
\* greater: the place a stable sort gives it.
InsertByKey(sorted, sol, secondary) ==
    IF sorted = <<>> THEN <<sol>>
    ELSE IF secondary_strategy(secondary, Head(sorted))
              <= secondary_strategy(secondary, sol)
         THEN <<Head(sorted)>> \o InsertByKey(Tail(sorted), sol, secondary)
         ELSE <<sol>> \o sorted

RECURSIVE SortedByKey(_, _)
\* sorted(list, key=lambda sol: self.secondary_strategy(sol)), stable.
SortedByKey(sols, secondary) ==
    IF sols = <<>> THEN <<>>
    ELSE InsertByKey(SortedByKey(SubSeq(sols, 1, Len(sols) - 1), secondary),
                     sols[Len(sols)], secondary)

\* min(len(solution) for solution in solutions)
MinLength(solutions) ==
    CHOOSE n \in {Len(solutions[i]) : i \in 1..Len(solutions)} :
        \A i \in 1..Len(solutions) : n <= Len(solutions[i])

\* max(len(solution) for solution in solutions)
MaxLength(solutions) ==
    CHOOSE n \in {Len(solutions[i]) : i \in 1..Len(solutions)} :
        \A i \in 1..Len(solutions) : n >= Len(solutions[i])

\* [solution for solution in solutions if len(solution) == length]
OfLength(solutions, length) ==
    LET HasLength(sol) == Len(sol) = length IN SelectSeq(solutions, HasLength)

\* FewestNumbers.choose_numbers
FewestNumbers_choose_numbers(answer, numbers, roll, secondary) ==
    LET solutions == find_all_solutions(numbers, roll)
    IN IF solutions # <<>>
       THEN LET shortest_solution_length == MinLength(solutions)
            IN Outcome("None",
                       SortedByKey(OfLength(solutions, shortest_solution_length),
                                   secondary)[1], 0)
       ELSE Outcome("None", answer, 0)

\* MostNumbers taking the shortest length, as FewestNumbers does.
MostNumbers_ShortestLength(answer, numbers, roll, secondary) ==
    LET solutions == find_all_solutions(numbers, roll)
    IN IF solutions # <<>>
       THEN Outcome("None",
                    SortedByKey(OfLength(solutions, MinLength(solutions)),
                                secondary)[1], 0)
       ELSE Outcome("None", answer, 0)

\* MostNumbers.choose_numbers (its local is named shortest_solution_length
\* too, and holds the longest length).
MostNumbers_choose_numbers(answer, numbers, roll, secondary) ==
    LET solutions == find_all_solutions(numbers, roll)
    IN IF solutions # <<>>
       THEN LET shortest_solution_length == MaxLength(solutions)
            IN Outcome("None",
                       SortedByKey(OfLength(solutions, shortest_solution_length),
                                   secondary)[1], 0)
       ELSE Outcome("None", answer, 0)

\* The strategy instances main can build: the class, and for the
\* SolutionLength classes the secondary_strategy ("min" or "negmax").
Plain(cls) == [cls |-> cls, secondary |-> "none"]

Strategies ==
    {Plain(c) : c \in {"LowestFirst", "HighestFirst", "ExactThenLowest",
                       "ExactThenHighest", "Random"}}
    \cup {[cls |-> c, secondary |-> k] :
             c \in {"FewestNumbers", "MostNumbers"}, k \in {"min", "negmax"}}

\* strategy.choose_numbers(numbers, roll), dispatched on the class of the
\* instance: the set of outcomes the call can have.
choose_numbers(strat, answer, numbers, roll) ==
    CASE strat.cls = "LowestFirst" ->
            {LowestFirst_choose_numbers(answer, numbers, roll)}
      [] strat.cls = "HighestFirst" ->
            {HighestFirst_choose_numbers(answer, numbers, roll)}
      [] strat.cls = "ExactThenLowest" ->
            {ExactThenLowest_choose_numbers(answer, numbers, roll)}
      [] strat.cls = "ExactThenHighest" ->
            {ExactThenHighest_choose_numbers(answer, numbers, roll)}
      [] strat.cls = "Random" ->
            Random_choose_numbers(answer, numbers, roll)
      [] strat.cls = "FewestNumbers" ->
            {FewestNumbers_choose_numbers(answer, numbers, roll, strat.secondary)}
      [] strat.cls = "MostNumbers" ->
            {MostNumbers_choose_numbers(answer, numbers, roll, strat.secondary)}


\* ---------------------------------------------------------------- state
\* strategy   the instance main builds once (the global `strategy`, which is
\*            also game.strategy of every Game): its class and secondary
\* answer     strategy.answer
\* numbers    game.numbers of the current Game
\* roll       the local roll of Game.play: this turn's roll (0: not rolled
\*            yet; the last turn's value is dead once its answer is removed)
\* searches   entries to a greedy choose_numbers in this turn's call
\* solutions  what a direct call of find_all_solutions returned
\* pc         the position in Game.play / main
\* game       the iteration of main's loop, from 1
\* score      what game.score() gave for the current Game (NoScore: not
\*            called yet); main appends it to scores
VARIABLES strategy, answer, numbers, roll, searches, solutions, pc, game, score

vars == <<strategy, answer, numbers, roll, searches, solutions, pc, game, score>>

NoScore == 0 - 1

\* [num for num in range(1, 10)]
FullBoard == [i \in 1..BoardMax |-> i]

\* Game.roll: one die when only 1 remains, else two dice.
Rolls(nums) ==
    IF nums = <<1>> THEN 1..DieFaces
    ELSE {a + b : a \in 1..DieFaces, b \in 1..DieFaces}

RECURSIVE RemoveEach(_, _)
\* A removal loop that stops after the first number of the answer.
RemoveEach_FirstOnly(nums, ans) ==
    IF ans = <<>> THEN nums ELSE ListRemove(nums, Head(ans))

\* for number in strategy.answer: self.numbers.remove(number)
RemoveEach(nums, ans) ==
    IF ans = <<>> THEN nums
    ELSE RemoveEach(ListRemove(nums, Head(ans)), Tail(ans))

RECURSIVE Removable(_, _)
\* Whether that loop runs through: no remove meets a missing number.
Removable(nums, ans) ==
    \/ ans = <<>>
    \/ /\ Head(ans) \in Range(nums)
       /\ Removable(ListRemove(nums, Head(ans)), Tail(ans))

\* Game.score with len in place of sum.
Game_score_Count(nums) == Len(nums)

\* Game.score
Game_score(nums) == SumSeq(nums)

\* main: strategy = ...(); game = Game(strategy)
Init ==
    /\ strategy \in Strategies
    /\ answer = <<>>
    /\ numbers = FullBoard
    /\ roll = 0
    /\ searches = 0
    /\ solutions = <<>>
    /\ pc = "roll"
    /\ game = 1
    /\ score = NoScore

\* roll = self.roll()
Roll ==
    /\ pc = "roll"
    /\ roll' \in Rolls(numbers)
    /\ pc' = "choose"
    /\ UNCHANGED <<strategy, answer, numbers, searches, solutions, game, score>>

\* self.strategy.choose_numbers(self.numbers, roll)
Choose ==
    /\ pc = "choose"
    /\ \E r \in choose_numbers(strategy, answer, numbers, roll) :
          /\ answer' = r.answer
          /\ searches' = r.searches
    /\ pc' = "while"
    /\ UNCHANGED <<strategy, numbers, roll, solutions, game, score>>

\* The loop body with the reset of the answer left out.
Continue_NoReset ==
    /\ pc = "while"
    /\ numbers # <<>> /\ answer # <<>>
    /\ IF Removable(numbers, answer)
       THEN /\ numbers' = RemoveEach(numbers, answer)
            /\ answer' = answer
            /\ searches' = 0
            /\ roll' = 0
            /\ pc' = "roll"
       ELSE /\ pc' = "ValueError"
            /\ UNCHANGED <<numbers, answer, searches, roll>>
    /\ UNCHANGED <<strategy, solutions, game, score>>

\* while self.numbers and self.strategy.answer: the body up to the reset
\* of the answer.  A remove of a missing number raises ValueError, which
\* nothing catches.
Continue ==
    /\ pc = "while"
    /\ numbers # <<>> /\ answer # <<>>
    /\ IF Removable(numbers, answer)
       THEN /\ numbers' = RemoveEach(numbers, answer)
            /\ answer' = <<>>
            /\ searches' = 0
            /\ roll' = 0
            /\ pc' = "roll"
       ELSE /\ pc' = "ValueError"
            /\ UNCHANGED <<numbers, answer, searches, roll>>
    /\ UNCHANGED <<strategy, solutions, game, score>>

\* The loop condition is false: play returns.
Return ==
    /\ pc = "while"
    /\ ~(numbers # <<>> /\ answer # <<>>)
    /\ pc' = "score"
    /\ UNCHANGED <<strategy, answer, numbers, roll, searches, solutions, game, score>>

\* scores.append(game.score())
Score ==
    /\ pc = "score"
    /\ score' = Game_score(numbers)
    /\ pc' = "next"
    /\ UNCHANGED <<strategy, answer, numbers, roll, searches, solutions, game>>

\* The next iteration of main's loop: game = Game(strategy); game.play()
NewGame ==
    /\ pc = "next"
    /\ game < MaxGames
    /\ game' = game + 1
    /\ numbers' = FullBoard
    /\ roll' = 0
    /\ searches' = 0
    /\ score' = NoScore
    /\ pc' = "roll"
    /\ UNCHANGED <<strategy, answer, solutions>>

Next == Roll \/ Choose \/ Continue \/ Return \/ Score \/ NewGame

Spec == Init /\ [][Next]_vars

\* Whether a step of Next can be taken: ENABLED <<Next>>_vars, written out
\* from the guards (every action changes pc, and choose_numbers always has
\* an outcome).
NextEnabled ==
    \/ pc \in {"roll", "choose", "while", "score"}
    \/ pc = "next" /\ game < MaxGames

\* Weak fairness of Next, WF_vars(Next), with its enabling condition
\* written as NextEnabled.
FairNext == []<>(~NextEnabled) \/ []<><<Next>>_vars

\* The program runs on: a single thread with nothing to wait for.
LiveSpec == Spec /\ FairNext

\* -------------------------------------------- the functions called directly

RECURSIVE AscendingList(_)
\* The elements of a set as an ascending list.
AscendingList(S) ==
    IF S = {} THEN <<>>
    ELSE LET m == CHOOSE x \in S : \A y \in S : x <= y
         IN <<m>> \o AscendingList(S \ {m})

\* Lists of distinct board numbers: every ascending one, and every one of
\* at most MaxLen numbers in any order.
InputLists ==
    {AscendingList(S) : S \in SUBSET (1..BoardMax)}
    \cup {s \in UNION {[1..n -> 1..BoardMax] : n \in 0..MaxLen} : NoDuplicates(s)}

InitFn ==
    /\ strategy = Plain("none")
    /\ answer = <<>>
    /\ numbers \in InputLists
    /\ roll \in 0..MaxTarget
    /\ searches = 0
    /\ solutions = <<>>
    /\ pc = "call"
    /\ game = 1
    /\ score = NoScore

\* solutions = find_all_solutions(numbers, roll)
FnFind ==
    /\ pc = "call"
    /\ solutions' = find_all_solutions(numbers, roll)
    /\ pc' = "found"
    /\ UNCHANGED <<strategy, answer, numbers, roll, searches, game, score>>

\* s.choose_numbers(numbers, roll) on a fresh instance s, for a roll >= 1.
FnChoose(s) ==
    /\ pc = "found"
    /\ roll >= 1
    /\ strategy' = s
    /\ \E r \in choose_numbers(s, answer, numbers, roll) :
          /\ answer' = r.answer
          /\ searches' = r.searches
    /\ pc' = "chosen"
    /\ UNCHANGED <<numbers, roll, solutions, game, score>>

NextFn == FnFind \/ \E s \in Strategies : FnChoose(s)

FnSpec == InitFn /\ [][NextFn]_vars


\* ----------------------------------------------------------- properties

\* Whether sequence a comes before b, or is b, in lexicographic order.
LexLeq(a, b) ==
    \/ a = b
    \/ \E k \in 1..Len(b) :
          /\ \A j \in 1..(k - 1) : j <= Len(a) /\ a[j] = b[j]
          /\ (k > Len(a) \/ a[k] < b[k])

\* The subsets of S that sum to t.
SubsetsSummingTo(S, t) == {X \in SUBSET S : SumSet(X) = t}

\* The solutions of a list, as a set.
SolutionSet(sols) == {sols[i] : i \in 1..Len(sols)}

\* C1: find_all_solutions(N, T) returns exactly the subsets of N that sum
\* to T: every solution is a duplicate-free subset of N summing to T, and
\* every subset of N summing to T is the set of exactly one solution.
C1_FindAllExact ==
    pc = "found" =>
        /\ \A i \in 1..Len(solutions) :
              /\ Range(solutions[i]) \subseteq Range(numbers)
              /\ NoDuplicates(solutions[i])
              /\ SumSeq(solutions[i]) = roll
        /\ \A X \in SubsetsSummingTo(Range(numbers), roll) :
              Cardinality({i \in 1..Len(solutions) : Range(solutions[i]) = X}) = 1

\* The example of the specification: N = {1,2,3,4}, T = 5 has two solutions.
C1_Witness ==
    /\ pc = "found"
    /\ numbers = <<1, 2, 3, 4>>
    /\ roll = 5
    /\ solutions = << <<1, 4>>, <<2, 3>> >>

\* C2: in every game, a non-empty answer left by choose_numbers is a
\* duplicate-free subset of the numbers it was given and sums to the roll,
\* and the removal of the answer never meets a missing number.
C2_AnswerIsLegalMove ==
    /\ pc # "ValueError"
    /\ (pc = "while" /\ answer # <<>>) =>
          /\ Range(answer) \subseteq Range(numbers)
          /\ NoDuplicates(answer)
          /\ SumSeq(answer) = roll

\* A later turn on which several numbers were chosen.
C2_Witness ==
    /\ pc = "while"
    /\ Len(answer) >= 3
    /\ Len(numbers) < BoardMax

\* C3: on an ascending list and a roll >= 1, a non-empty answer of
\* LowestFirst or HighestFirst is (as a set) one of find_all_solutions'
\* solutions, and an empty answer means there is no solution.
C3_GreedyFindsWhenAny ==
    (/\ pc = "chosen"
     /\ strategy.cls \in {"LowestFirst", "HighestFirst"}
     /\ IsAscending(numbers)) =>
        /\ answer # <<>> =>
              /\ NoDuplicates(answer)
              /\ \E i \in 1..Len(solutions) : Range(solutions[i]) = Range(answer)
        /\ answer = <<>> => solutions = <<>>

\* HighestFirst on the full board with a roll of 12.
C3_Witness ==
    /\ pc = "chosen"
    /\ strategy.cls = "HighestFirst"
    /\ numbers = FullBoard
    /\ roll = MaxRoll
    /\ answer = <<9, 3>>

\* C4: ExactThenLowest and ExactThenHighest choose the singleton of the
\* roll, without any greedy search, when the roll is among the numbers, and
\* otherwise choose what LowestFirst, respectively HighestFirst, chooses.
C4_ExactThenGreedy ==
    /\ (pc = "chosen" /\ strategy.cls = "ExactThenLowest") =>
          IF roll \in Range(numbers)
          THEN answer = <<roll>> /\ searches = 0
          ELSE answer = LowestFirst_choose_numbers(<<>>, numbers, roll).answer
    /\ (pc = "chosen" /\ strategy.cls = "ExactThenHighest") =>
          IF roll \in Range(numbers)
          THEN answer = <<roll>> /\ searches = 0
          ELSE answer = HighestFirst_choose_numbers(<<>>, numbers, roll).answer

\* The roll 5 is on the board, where LowestFirst would take 2 and 3.
C4_Witness ==
    /\ pc = "chosen"
    /\ strategy.cls = "ExactThenLowest"
    /\ numbers = <<2, 3, 5, 9>>
    /\ roll = 5
    /\ answer = <<5>>
    /\ LowestFirst_choose_numbers(<<>>, numbers, roll).answer = <<2, 3>>

\* C5: when there are solutions, FewestNumbers selects one of the least
\* length and MostNumbers one of the greatest length, with the smallest
\* secondary_strategy value among the solutions of that length; when there
\* is none the answer stays empty.
C5_LengthThenSecondary ==
    (pc = "chosen" /\ strategy.cls \in {"FewestNumbers", "MostNumbers"}) =>
        IF solutions = <<>> THEN answer = <<>>
        ELSE /\ answer \in SolutionSet(solutions)
             /\ \A sol \in SolutionSet(solutions) :
                   /\ strategy.cls = "FewestNumbers" => Len(answer) <= Len(sol)
                   /\ strategy.cls = "MostNumbers" => Len(answer) >= Len(sol)
                   /\ Len(sol) = Len(answer) =>
                         secondary_strategy(strategy.secondary, answer)
                             <= secondary_strategy(strategy.secondary, sol)

\* The example of the specification: N = {1,...,5}, T = 6.
C5_Witness ==
    /\ pc = "chosen"
    /\ strategy = [cls |-> "FewestNumbers", secondary |-> "min"]
    /\ numbers = <<1, 2, 3, 4, 5>>
    /\ roll = 6
    /\ Len(solutions) = 3
    /\ answer = <<1, 5>>

\* C6: every game halts; play leaves its loop exactly at the first test
\* that finds the answer empty; and the score taken then is the sum of the
\* numbers left, 0 exactly when none is left.
C6_HaltsOnFirstEmptyAnswer ==
    /\ (pc # "next") ~> (pc = "next")
    /\ [][pc = "while" => (pc' = "score" <=> answer = <<>>)]_vars
    /\ [](pc = "next" =>
            /\ score = SumSet(Range(numbers))
            /\ (score = 0 <=> numbers = <<>>))

\* A game that halted with numbers left after removing some.
C6_Witness ==
    /\ pc = "next"
    /\ game = MaxGames
    /\ numbers # <<>>
    /\ Len(numbers) < BoardMax
    /\ score > 0

\* C7: the answer is empty at every call of choose_numbers, and when a game
\* has ended.
C7_AnswerEmptyAtCall == pc \in {"choose", "score", "next"} => answer = <<>>

\* The first call of a later game with the reused instance.
C7_Witness ==
    /\ pc = "choose"
    /\ game > 1
    /\ numbers = FullBoard

\* C8: numbers changes only in the loop body, by losing exactly the
\* elements of the answer the game's strategy chose for this roll (a new
\* Game starts from its own full board); no choose_numbers changes it; and
\* it is always a strictly ascending list of numbers of the board.
C8_OnlyLoopRemoves ==
    /\ [][numbers' # numbers =>
            \/ /\ pc = "while" /\ pc' = "roll"
               /\ \E r \in choose_numbers(strategy, <<>>, numbers, roll) :
                     r.answer = answer
               /\ Range(numbers') = Range(numbers) \ Range(answer)
               /\ Len(numbers') = Len(numbers) - Len(answer)
            \/ /\ pc = "next" /\ numbers' = FullBoard]_vars
    /\ [](IsAscending(numbers) /\ Range(numbers) \subseteq 1..BoardMax)

\* A board after several removals, before the next roll.
C8_Witness ==
    /\ pc = "roll"
    /\ Len(numbers) \in 1..4

\* C9: on an ascending list with a solution, LowestFirst's answer is
\* ascending and lexicographically least among the solutions written
\* ascending; HighestFirst's is descending and lexicographically greatest
\* among the solutions written descending.
C9_GreedyIsLexExtreme ==
    (pc = "chosen" /\ IsAscending(numbers) /\ solutions # <<>>) =>
        /\ strategy.cls = "LowestFirst" =>
              /\ answer \in {SortedAscending(sol) : sol \in SolutionSet(solutions)}
              /\ \A sol \in SolutionSet(solutions) :
                    LexLeq(answer, SortedAscending(sol))
        /\ strategy.cls = "HighestFirst" =>
              /\ answer \in {SortedDescending(sol) : sol \in SolutionSet(solutions)}
              /\ \A sol \in SolutionSet(solutions) :
                    LexLeq(SortedDescending(sol), answer)

\* LowestFirst on the full board with a roll of 12.
C9_Witness ==
    /\ pc = "chosen"
    /\ strategy.cls = "LowestFirst"
    /\ numbers = FullBoard
    /\ roll = MaxRoll
    /\ answer = <<1, 2, 3, 6>>

\* The answer of the same SolutionLength class with the other secondary.
OtherSecondaryAnswer ==
    LET other == IF strategy.secondary = "min" THEN "negmax" ELSE "min"
    IN IF strategy.cls = "FewestNumbers"
       THEN FewestNumbers_choose_numbers(<<>>, numbers, roll, other).answer
       ELSE MostNumbers_choose_numbers(<<>>, numbers, roll, other).answer

\* C10: on an ascending list and a roll of at most 12 with a solution, the
\* solution FewestNumbers (MostNumbers) selects holds both the lowest and
\* the highest number found in the solutions of the selected length, and
\* is the same for secondary_strategy min and -1 * max.
C10_MinAndMaxAgree ==
    (/\ pc = "chosen"
     /\ strategy.cls \in {"FewestNumbers", "MostNumbers"}
     /\ IsAscending(numbers)
     /\ roll <= MaxRoll
     /\ solutions # <<>>) =>
        LET candidates == {sol \in SolutionSet(solutions) : Len(sol) = Len(answer)}
            used == UNION {Range(sol) : sol \in candidates}
        IN /\ answer = OtherSecondaryAnswer
           /\ \A x \in used : MinOf(answer) <= x /\ x <= MaxOf(answer)

\* Four candidates of length 2, from <<1, 9>> to <<4, 6>>.
C10_Witness ==
    /\ pc = "chosen"
    /\ strategy = [cls |-> "FewestNumbers", secondary |-> "negmax"]
    /\ numbers = FullBoard
    /\ roll = 10
    /\ answer = <<1, 9>>

=============================================================================
